---- MODULE Spec2Model ----
(***************************************************************************)
(* Model of SME_UnB/transductor/models.py and of migration 0005.           *)
(*                                                                         *)
(* The module declares Django models.  Their rows live in relational       *)
(* tables and change through the ORM calls Model.save(), Model.delete()    *)
(* and Model.full_clean(); the declarations of the source (unique=True,    *)
(* validators=[...], ForeignKey, on_delete, ArrayField) decide what each   *)
(* of those calls does.  Strings are sequences of one-character strings,   *)
(* so that the regular expression of the source is evaluated on them.      *)
(***************************************************************************)
EXTENDS Integers, Sequences, FiniteSets, TLC

VARIABLES
    transductorModels,   \* rows of TransductorModel: [id, name, register_addresses]
    energyTransductors,  \* rows of EnergyTransductor: [id, model, ip_address]
    energyMeasurements,  \* rows of EnergyMeasurements: [id, transductor]
    last,                \* the last ORM call: [op, result, errors, deleted]
    ip,                  \* the string handed to the ip_address validators
    verdict,             \* what the validators said of ip
    measurement,         \* an EnergyMeasurements instance: its nine power fields
    ret,                 \* what the last calculate_total_*_power call returned
    applied,             \* the migrations recorded as applied
    columns,             \* the flag columns of the energytransductor table
    rows,                \* the flag columns' values, one record per row
    run                  \* the last action of the migration runner

vars == <<transductorModels, energyTransductors, energyMeasurements, last,
          ip, verdict, measurement, ret, applied, columns, rows, run>>

notDbVars == <<ip, verdict, measurement, ret, applied, columns, rows, run>>

-----------------------------------------------------------------------------
(* Bounds of the model *)

\* primary keys of each table
MaxRows == 2
\* longest string typed into the validator character by character
MaxTyped == 8
\* rows of energytransductor the migrations run over
MaxFlagRows == 4

-----------------------------------------------------------------------------
(* Transductor.ip_address: CharField(max_length=15, validators=[RegexValidator]) *)

Digit == {"0", "1", "2", "3", "4", "5", "6", "7", "8", "9"}

ip_max_length == 15

\* the positions after one [0-9]{1,3} started at a position of P
\* (a position is the index of the next character to read)
DigitGroup(s, P) ==
    UNION { { p + n : n \in {k \in 1..3 : \A j \in p..(p + k - 1) :
                                              j <= Len(s) /\ s[j] \in Digit} }
            : p \in P }

\* the positions after one \. started at a position of P
Dot(s, P) == { p + 1 : p \in {q \in P : q <= Len(s) /\ s[q] = "."} }

\* $ without re.MULTILINE: the end of the string, or just before a newline
\* that ends the string
AtDollar(s, p) == p = Len(s) + 1 \/ (p = Len(s) /\ s[p] = "\n")

\* regex.search(value) for '^(?:[0-9]{1,3}\.){3}[0-9]{1,3}$'
RegexSearch(s) ==
    LET g1 == Dot(s, DigitGroup(s, {1}))
        g2 == Dot(s, DigitGroup(s, g1))
        g3 == Dot(s, DigitGroup(s, g2))
        g4 == DigitGroup(s, g3)
    IN  \E p \in g4 : AtDollar(s, p)

\* the error codes Field.run_validators raises for ip_address
IpFieldErrors(s) ==
    (IF RegexSearch(s) THEN {} ELSE {"invalid_ip_address"})
    \cup (IF Len(s) > ip_max_length THEN {"max_length"} ELSE {})

-----------------------------------------------------------------------------
(* What a dotted quad is: four groups of one to three decimal digits, a    *)
(* single dot between two groups, and nothing else                         *)

IsDottedQuad(s) ==
    \E a, b, c, d \in 1..3 :
        /\ Len(s) = a + b + c + d + 3
        /\ \A i \in 1..Len(s) :
              IF i \in {a + 1, a + b + 2, a + b + c + 3}
              THEN s[i] = "."
              ELSE s[i] \in Digit

-----------------------------------------------------------------------------
(* The inputs of the ORM calls *)

\* the names of the transductor models in use, and every name tried
ModelNames == {"Test Name", "TR 4020"}
NameInputs == ModelNames \cup {"MJ 300"}

\* [[68, 0], [70, 1]] of the docstring
DocRegisters == <<<<68, 0>>, <<70, 1>>>>

\* the docstring's list, a rectangular list of triples and a ragged list
RegisterInputs ==
    { DocRegisters, <<<<68, 0, 1>>, <<70, 1, 1>>>>, <<<<68, 0>>, <<70>>>> }

\* "1.1.1.1" of the docstring, and "999.1.1.1"
DocIp == <<"1", ".", "1", ".", "1", ".", "1">>
BigOctetIp == <<"9", "9", "9", ".", "1", ".", "1", ".", "1">>

\* "192.168.0" and "1.1.1.1\n"
ShortIp == <<"1", "9", "2", ".", "1", "6", "8", ".", "0">>
NewlineIp == <<"1", ".", "1", ".", "1", ".", "1", "\n">>

IpInputs == {DocIp, ShortIp, NewlineIp}

Ids == 1..MaxRows

\* The automatic primary key of a new row.  The sequence of the table hands
\* out a key that no row holds and no row refers to; which one it is
\* matters to nothing, so it is the smallest such key (0: the keys of the
\* model are used up).
FreshId(held, referred) ==
    LET free == Ids \ (held \cup referred)
    IN  IF free = {} THEN 0 ELSE CHOOSE i \in free : \A j \in free : i <= j

Outcome(result, errors) == [result |-> result, errors |-> errors]

\* what a call leaves to its caller: the exception it raised, if any, and
\* the number of rows delete() reports as deleted
Call(op, out, deleted) ==
    [op |-> op, result |-> out.result, errors |-> out.errors, deleted |-> deleted]

-----------------------------------------------------------------------------
(* TransductorModel *)

\* name = CharField(max_length=50), without unique=True
NameTaken_NotUnique(name, self) == FALSE

\* name = CharField(max_length=50, unique=True): another row holds the name
NameTaken(name, self) ==
    \E r \in transductorModels : r.name = name /\ r.id # self

\* ArrayField(ArrayField(IntegerField())): no size is declared, so the only
\* shape that is refused is a list whose inner lists differ in length
Ragged(regs) == \E i, j \in 1..Len(regs) : Len(regs[i]) # Len(regs[j])

\* full_clean() of a TransductorModel: clean_fields, then validate_unique
TransductorModelCleanErrors(name, regs, self) ==
    (IF Ragged(regs) THEN {"nested_array_mismatch"} ELSE {})
    \cup (IF NameTaken(name, self) THEN {"unique"} ELSE {})

\* the INSERT or UPDATE of a TransductorModel row, as the database answers it
TransductorModelWrite(name, regs, self) ==
    IF Ragged(regs) THEN "DataError"
    ELSE IF NameTaken(name, self) THEN "IntegrityError"
    ELSE "ok"

\* the outcome of [full_clean() and] save() of a TransductorModel
TransductorModelOutcome(name, regs, self, clean) ==
    IF clean /\ TransductorModelCleanErrors(name, regs, self) # {}
    THEN Outcome("ValidationError", TransductorModelCleanErrors(name, regs, self))
    ELSE Outcome(TransductorModelWrite(name, regs, self), {})

\* TransductorModel(name=..., register_addresses=...).save() of a new instance
TransductorModel_save(name, regs, clean) ==
    LET out == TransductorModelOutcome(name, regs, 0, clean)
        id == FreshId({r.id : r \in transductorModels},
                      {d.model : d \in energyTransductors})
    IN  /\ out.result = "ok" => id # 0
        /\ last' = Call("TransductorModel.save", out, 0)
        /\ transductorModels' =
              IF out.result = "ok"
              THEN transductorModels \cup
                       {[id |-> id, name |-> name, register_addresses |-> regs]}
              ELSE transductorModels
        /\ UNCHANGED <<energyTransductors, energyMeasurements, notDbVars>>

\* save() of a stored TransductorModel whose name was changed
TransductorModel_rename(row, name, clean) ==
    LET out == TransductorModelOutcome(name, row.register_addresses, row.id, clean)
    IN  /\ row \in transductorModels
        /\ name # row.name
        /\ last' = Call("TransductorModel.rename", out, 0)
        /\ transductorModels' =
              IF out.result = "ok"
              THEN (transductorModels \ {row}) \cup {[row EXCEPT !.name = name]}
              ELSE transductorModels
        /\ UNCHANGED <<energyTransductors, energyMeasurements, notDbVars>>

-----------------------------------------------------------------------------
(* EnergyTransductor, the concrete subclass of the abstract Transductor *)

\* ip_address = CharField(max_length=15, ...), without unique=True
IpTaken_NotUnique(addr, self) == FALSE

\* ip_address = CharField(unique=True, ...): another row holds the address
IpTaken(addr, self) ==
    \E d \in energyTransductors : d.ip_address = addr /\ d.id # self

\* model = ForeignKey(TransductorModel): the referenced row is stored
ModelStored(model) == \E r \in transductorModels : r.id = model

\* full_clean() of an EnergyTransductor: the validators of the fields, the
\* check of the foreign key, then validate_unique
EnergyTransductorCleanErrors(model, addr, self) ==
    IpFieldErrors(addr)
    \cup (IF ModelStored(model) THEN {} ELSE {"invalid"})
    \cup (IF IpTaken(addr, self) THEN {"unique"} ELSE {})

\* the INSERT or UPDATE of an EnergyTransductor row, as the database answers
\* it: varchar(15), the foreign key and the unique index; the validators of
\* the field are no part of save()
EnergyTransductorWrite(model, addr, self) ==
    IF Len(addr) > ip_max_length THEN "DataError"
    ELSE IF ~ModelStored(model) \/ IpTaken(addr, self) THEN "IntegrityError"
    ELSE "ok"

\* the outcome of [full_clean() and] save() of an EnergyTransductor
EnergyTransductorOutcome(model, addr, self, clean) ==
    IF clean /\ EnergyTransductorCleanErrors(model, addr, self) # {}
    THEN Outcome("ValidationError", EnergyTransductorCleanErrors(model, addr, self))
    ELSE Outcome(EnergyTransductorWrite(model, addr, self), {})

\* EnergyTransductor(model=..., ip_address=...).save() of a new instance
EnergyTransductor_save(model, addr, clean) ==
    LET out == EnergyTransductorOutcome(model, addr, 0, clean)
        id == FreshId({d.id : d \in energyTransductors},
                      {e.transductor : e \in energyMeasurements})
    IN  /\ out.result = "ok" => id # 0
        /\ last' = Call("EnergyTransductor.save", out, 0)
        /\ energyTransductors' =
              IF out.result = "ok"
              THEN energyTransductors \cup
                       {[id |-> id, model |-> model, ip_address |-> addr]}
              ELSE energyTransductors
        /\ UNCHANGED <<transductorModels, energyMeasurements, notDbVars>>

\* save() of a stored EnergyTransductor whose ip_address was changed
EnergyTransductor_readdress(row, addr, clean) ==
    LET out == EnergyTransductorOutcome(row.model, addr, row.id, clean)
    IN  /\ row \in energyTransductors
        /\ addr # row.ip_address
        /\ last' = Call("EnergyTransductor.readdress", out, 0)
        /\ energyTransductors' =
              IF out.result = "ok"
              THEN (energyTransductors \ {row}) \cup {[row EXCEPT !.ip_address = addr]}
              ELSE energyTransductors
        /\ UNCHANGED <<transductorModels, energyMeasurements, notDbVars>>

-----------------------------------------------------------------------------
(* EnergyMeasurements *)

\* transductor = ForeignKey(EnergyTransductor, ...): the referenced row is stored
TransductorStored(transductor) ==
    \E d \in energyTransductors : d.id = transductor

\* EnergyMeasurements(transductor=...).save() of a new instance
EnergyMeasurements_save(transductor) ==
    LET out == IF TransductorStored(transductor) THEN Outcome("ok", {})
               ELSE Outcome("IntegrityError", {})
        id == FreshId({e.id : e \in energyMeasurements}, {})
    IN  /\ out.result = "ok" => id # 0
        /\ last' = Call("EnergyMeasurements.save", out, 0)
        /\ energyMeasurements' =
              IF out.result = "ok"
              THEN energyMeasurements \cup {[id |-> id, transductor |-> transductor]}
              ELSE energyMeasurements
        /\ UNCHANGED <<transductorModels, energyTransductors, notDbVars>>

\* delete() of a stored EnergyMeasurements row
EnergyMeasurements_delete(row) ==
    /\ row \in energyMeasurements
    /\ last' = Call("EnergyMeasurements.delete", Outcome("ok", {}), 1)
    /\ energyMeasurements' = energyMeasurements \ {row}
    /\ UNCHANGED <<transductorModels, energyTransductors, notDbVars>>

-----------------------------------------------------------------------------
(* delete(): the collector follows the foreign keys that point at the row *)

\* on_delete=models.DO_NOTHING in the place of CASCADE
MeasurementsOf_DoNothing(D) == {}

\* on_delete=models.CASCADE of EnergyMeasurements.transductor: the
\* measurements deleted with the transductors D
MeasurementsOf(D) ==
    { e \in energyMeasurements : \E d \in D : e.transductor = d.id }

\* ForeignKey(TransductorModel, on_delete=models.DO_NOTHING)
TransductorsOf_DoNothing(r) == {}

\* ForeignKey(TransductorModel) names no on_delete; the migration is of
\* Django 1.9.8, where the default is CASCADE: the transductors deleted with
\* the TransductorModel row r
TransductorsOf(r) == { d \in energyTransductors : d.model = r.id }

\* delete() of a stored EnergyTransductor
EnergyTransductor_delete(row) ==
    /\ row \in energyTransductors
    /\ last' = Call("EnergyTransductor.delete", Outcome("ok", {}),
                  1 + Cardinality(MeasurementsOf({row})))
    /\ energyMeasurements' = energyMeasurements \ MeasurementsOf({row})
    /\ energyTransductors' = energyTransductors \ {row}
    /\ UNCHANGED <<transductorModels, notDbVars>>

\* delete() of a stored TransductorModel
TransductorModel_delete(row) ==
    /\ row \in transductorModels
    /\ last' = Call("TransductorModel.delete", Outcome("ok", {}),
                  1 + Cardinality(TransductorsOf(row))
                    + Cardinality(MeasurementsOf(TransductorsOf(row))))
    /\ energyMeasurements' = energyMeasurements \ MeasurementsOf(TransductorsOf(row))
    /\ energyTransductors' = energyTransductors \ TransductorsOf(row)
    /\ transductorModels' = transductorModels \ {row}
    /\ UNCHANGED notDbVars

-----------------------------------------------------------------------------
(* The specifications of the tables *)

IdleDb ==
    /\ transductorModels = {}
    /\ energyTransductors = {}
    /\ energyMeasurements = {}
    /\ last = Call("none", Outcome("ok", {}), 0)
IdleIp == ip = <<>> /\ verdict = [checked |-> FALSE, errors |-> {}]
IdlePower == measurement = <<>> /\ ret = [call |-> "none"]
IdleMigrations ==
    applied = {} /\ columns = {} /\ rows = <<>> /\ run = [op |-> "none", ran |-> <<>>]

Init == IdleDb /\ IdleIp /\ IdlePower /\ IdleMigrations

\* the TransductorModel table alone
ModelsNext ==
    \/ \E name \in NameInputs, regs \in RegisterInputs, clean \in BOOLEAN :
           TransductorModel_save(name, regs, clean)
    \/ \E row \in transductorModels, name \in NameInputs, clean \in BOOLEAN :
           TransductorModel_rename(row, name, clean)
    \/ \E row \in transductorModels : TransductorModel_delete(row)

SpecModels == Init /\ [][ModelsNext]_vars

\* TransductorModel and EnergyTransductor
TransductorsNext ==
    \/ \E name \in ModelNames : TransductorModel_save(name, DocRegisters, FALSE)
    \/ \E row \in transductorModels : TransductorModel_delete(row)
    \/ \E model \in Ids, addr \in IpInputs, clean \in BOOLEAN :
           EnergyTransductor_save(model, addr, clean)
    \/ \E row \in energyTransductors, addr \in IpInputs, clean \in BOOLEAN :
           EnergyTransductor_readdress(row, addr, clean)
    \/ \E row \in energyTransductors : EnergyTransductor_delete(row)

SpecTransductors == Init /\ [][TransductorsNext]_vars

\* TransductorModel and EnergyTransductor, full_clean() before every save()
CleanNext ==
    \/ \E name \in ModelNames : TransductorModel_save(name, DocRegisters, TRUE)
    \/ \E row \in transductorModels : TransductorModel_delete(row)
    \/ \E model \in Ids, addr \in IpInputs : EnergyTransductor_save(model, addr, TRUE)
    \/ \E row \in energyTransductors, addr \in IpInputs :
           EnergyTransductor_readdress(row, addr, TRUE)
    \/ \E row \in energyTransductors : EnergyTransductor_delete(row)

SpecClean == Init /\ [][CleanNext]_vars

\* the three tables
Next ==
    \/ \E name \in ModelNames : TransductorModel_save(name, DocRegisters, FALSE)
    \/ \E row \in transductorModels : TransductorModel_delete(row)
    \/ \E model \in Ids, addr \in {DocIp, BigOctetIp}, clean \in BOOLEAN :
           EnergyTransductor_save(model, addr, clean)
    \/ \E row \in energyTransductors : EnergyTransductor_delete(row)
    \/ \E transductor \in Ids : EnergyMeasurements_save(transductor)
    \/ \E row \in energyMeasurements : EnergyMeasurements_delete(row)

Spec == Init /\ [][Next]_vars

-----------------------------------------------------------------------------
(* Claims on the tables *)

\* the transductors and the models a step removes
RemovedTransductors ==
    { d \in energyTransductors : \A x \in energyTransductors' : x.id # d.id }
RemovedModels ==
    { r \in transductorModels : \A x \in transductorModels' : x.id # r.id }

\* a call that raised left every table as it was
FailedCallStoresNothing ==
    last'.result # "ok" =>
        UNCHANGED <<transductorModels, energyTransductors, energyMeasurements>>

\* C1: deleting an EnergyTransductor deletes the EnergyMeasurements rows that
\* refer to it and no others, so that in every state each stored
\* measurement refers to a stored transductor.
C1_CascadeDelete ==
    /\ [](\A e \in energyMeasurements : TransductorStored(e.transductor))
    /\ [][last'.op = "EnergyTransductor.delete" =>
            energyMeasurements' =
                { e \in energyMeasurements :
                    \A d \in RemovedTransductors : e.transductor # d.id }]_vars

\* a transductor was deleted with a measurement of its own, and a
\* measurement of another transductor is still stored
C1_Witness ==
    /\ last.op = "EnergyTransductor.delete"
    /\ last.deleted >= 2
    /\ energyMeasurements # {}

\* C2: no two TransductorModel rows share a name; in every state the insert
\* of a row with a stored name raises a uniqueness error (IntegrityError of
\* the unique index, or the "unique" ValidationError of full_clean; a ragged
\* register list is refused before the index is asked), and a call that
\* raises leaves the table as it was.
C2_UniqueName ==
    /\ [](/\ \A r1, r2 \in transductorModels : r1.name = r2.name => r1 = r2
          /\ \A name \in NameInputs, regs \in RegisterInputs, clean \in BOOLEAN :
                NameTaken(name, 0) =>
                    LET out == TransductorModelOutcome(name, regs, 0, clean)
                    IN  \/ out.result = "IntegrityError"
                        \/ out.result = "ValidationError" /\ "unique" \in out.errors
                        \/ out.result = "DataError" /\ Ragged(regs))
    /\ [][FailedCallStoresNothing]_vars

\* a second insert was refused by the unique index
C2_Witness ==
    /\ last.op = "TransductorModel.save"
    /\ last.result = "IntegrityError"
    /\ transductorModels # {}

\* C3: no two EnergyTransductor rows share an IP address; in every state the
\* save of a transductor with the address of another stored one raises, and
\* a call that raises leaves the table as it was.
C3_UniqueIp ==
    /\ [](/\ \A d1, d2 \in energyTransductors :
                d1.ip_address = d2.ip_address => d1 = d2
          /\ \A model \in Ids, addr \in IpInputs, clean \in BOOLEAN :
                /\ IpTaken(addr, 0) =>
                      EnergyTransductorOutcome(model, addr, 0, clean).result
                          \in {"IntegrityError", "ValidationError"}
                /\ \A row \in energyTransductors :
                      IpTaken(addr, row.id) =>
                          EnergyTransductorOutcome(row.model, addr, row.id, clean).result
                              \in {"IntegrityError", "ValidationError"})
    /\ [][FailedCallStoresNothing]_vars

\* the save of a transductor was refused for its address alone
C3_Witness ==
    /\ last.op = "EnergyTransductor.save"
    /\ last.result = "ValidationError"
    /\ last.errors = {"unique"}

\* C4: the save of an EnergyTransductor whose IP address is no dotted quad
\* fails validation, so that no stored transductor has a malformed address
\* (here with full_clean() before every save()).
C4_NoMalformedIpStored ==
    \A d \in energyTransductors : IsDottedQuad(d.ip_address)

\* C9: every entry of a stored register list is a pair.
C9_RegisterPairs ==
    \A r \in transductorModels :
        \A i \in 1..Len(r.register_addresses) : Len(r.register_addresses[i]) = 2

\* C10: the save of an EnergyTransductor that refers to no stored
\* TransductorModel fails; deleting a TransductorModel deletes its
\* transductors and their measurements; in every state each stored
\* transductor refers to a stored model and each stored measurement to a
\* stored transductor.
C10_ForeignKeys ==
    /\ [](/\ \A d \in energyTransductors : ModelStored(d.model)
          /\ \A e \in energyMeasurements : TransductorStored(e.transductor)
          /\ \A model \in Ids, addr \in {DocIp, BigOctetIp}, clean \in BOOLEAN :
                ~ModelStored(model) =>
                    LET out == EnergyTransductorOutcome(model, addr, 0, clean)
                    IN  \/ out.result = "IntegrityError"
                        \/ out.result = "ValidationError" /\ "invalid" \in out.errors)
    /\ [][/\ FailedCallStoresNothing
          /\ last'.op = "TransductorModel.delete" =>
               /\ energyTransductors' =
                     { d \in energyTransductors :
                         \A r \in RemovedModels : d.model # r.id }
               /\ energyMeasurements' =
                     { e \in energyMeasurements :
                         \A d \in RemovedTransductors : e.transductor # d.id }]_vars

\* a TransductorModel was deleted with a transductor and a measurement, and
\* a transductor of another model is still stored
C10_Witness ==
    /\ last.op = "TransductorModel.delete"
    /\ last.deleted >= 3
    /\ energyTransductors # {}

-----------------------------------------------------------------------------
(* The validators of ip_address, run on a string *)

\* the characters typed: a digit, the dot, a newline and a letter
Typed == {"1", ".", "\n", "a"}

\* "192.168.0.1"
LanIp == <<"1", "9", "2", ".", "1", "6", "8", ".", "0", ".", "1">>

\* the strings of the examples, and the empty string to type from
IpInit ==
    /\ ip \in {<<>>, LanIp, ShortIp, BigOctetIp}
    /\ verdict = [checked |-> FALSE, errors |-> {}]
    /\ IdleDb /\ IdlePower /\ IdleMigrations

notIpVars == <<transductorModels, energyTransductors, energyMeasurements, last,
               measurement, ret, applied, columns, rows, run>>

\* one more character of the address
Type(c) ==
    /\ Len(ip) < MaxTyped
    /\ ip' = Append(ip, c)
    /\ verdict' = [checked |-> FALSE, errors |-> {}]
    /\ UNCHANGED notIpVars

\* Field.run_validators(ip): the RegexValidator and the validator of max_length
Validate ==
    /\ ~verdict.checked
    /\ verdict' = [checked |-> TRUE, errors |-> IpFieldErrors(ip)]
    /\ UNCHANGED <<ip, notIpVars>>

IpNext ==
    \/ \E c \in Typed : Type(c)
    \/ Validate

SpecIp == IpInit /\ [][IpNext]_vars

\* C5: the validators accept a string if and only if it is a dotted quad:
\* "192.168.0.1" and "999.1.1.1" are accepted, "192.168.0" is rejected with
\* invalid_ip_address.
C5_AcceptsExactlyDottedQuads ==
    verdict.checked =>
        /\ verdict.errors = {} <=> IsDottedQuad(ip)
        /\ verdict.errors # {} => "invalid_ip_address" \in verdict.errors

-----------------------------------------------------------------------------
(* EnergyMeasurements: the power fields and their totals *)

PowerFields ==
    { "active_power_a", "active_power_b", "active_power_c",
      "reactive_power_a", "reactive_power_b", "reactive_power_c",
      "apparent_power_a", "apparent_power_b", "apparent_power_c" }

\* the values of Python: a float, None, and a raised TypeError
Float(v) == [type |-> "float", value |-> v]
NoneValue == [type |-> "NoneType"]
TypeError == [type |-> "TypeError"]

\* the readings collected: 1.0, 2.0 and 3.0
PowerValues == {Float(1), Float(2), Float(3)}

\* x + y where None counts as 0.0
Plus_NoneAsZero(x, y) ==
    LET v(z) == IF z.type = "float" THEN z.value ELSE 0
    IN  IF x = TypeError THEN TypeError ELSE Float(v(x) + v(y))

\* x + y of Python: a None operand raises TypeError, and an exception
\* raised by the left operand is what the expression raises
Plus(x, y) ==
    IF x = TypeError THEN TypeError
    ELSE IF x.type = "float" /\ y.type = "float" THEN Float(x.value + y.value)
    ELSE TypeError

\* calculate_total_active_power
TotalActive(m) ==
    Plus(Plus(m["active_power_a"], m["active_power_b"]), m["active_power_c"])

\* calculate_total_reactive_power with the c phase of the active power
TotalReactive_WrongPhase(m) ==
    Plus(Plus(m["reactive_power_a"], m["reactive_power_b"]), m["active_power_c"])

\* calculate_total_reactive_power
TotalReactive(m) ==
    Plus(Plus(m["reactive_power_a"], m["reactive_power_b"]), m["reactive_power_c"])

\* calculate_total_apparent_power
TotalApparent(m) ==
    LET ap_phase_a == m["apparent_power_a"]
        ap_phase_b == m["apparent_power_b"]
        ap_phase_c == m["apparent_power_c"]
        ap_total == Plus(Plus(ap_phase_a, ap_phase_b), ap_phase_c)
    IN  ap_total

notPowerVars == <<transductorModels, energyTransductors, energyMeasurements, last,
                  ip, verdict, applied, columns, rows, run>>

\* EnergyMeasurements(): every power field is default=None
PowerInit ==
    /\ measurement = [f \in PowerFields |-> NoneValue]
    /\ ret = [call |-> "none"]
    /\ IdleDb /\ IdleIp /\ IdleMigrations

\* the collector fills a field of the instance in
Collect(f, v) ==
    /\ measurement[f] = NoneValue
    /\ measurement' = [measurement EXCEPT ![f] = v]
    /\ ret' = [call |-> "none"]
    /\ UNCHANGED notPowerVars

calculate_total_active_power ==
    /\ ret' = [call |-> "calculate_total_active_power",
               value |-> TotalActive(measurement)]
    /\ UNCHANGED <<measurement, notPowerVars>>

calculate_total_reactive_power ==
    /\ ret' = [call |-> "calculate_total_reactive_power",
               value |-> TotalReactive(measurement)]
    /\ UNCHANGED <<measurement, notPowerVars>>

calculate_total_apparent_power ==
    /\ ret' = [call |-> "calculate_total_apparent_power",
               value |-> TotalApparent(measurement)]
    /\ UNCHANGED <<measurement, notPowerVars>>

PowerNext ==
    \/ \E f \in PowerFields, v \in PowerValues : Collect(f, v)
    \/ calculate_total_active_power
    \/ calculate_total_reactive_power
    \/ calculate_total_apparent_power

SpecPower == PowerInit /\ [][PowerNext]_vars

\* the fields a call reads
Phases(call) ==
    IF call = "calculate_total_active_power"
    THEN <<"active_power_a", "active_power_b", "active_power_c">>
    ELSE IF call = "calculate_total_reactive_power"
    THEN <<"reactive_power_a", "reactive_power_b", "reactive_power_c">>
    ELSE <<"apparent_power_a", "apparent_power_b", "apparent_power_c">>

Populated(call) == \A i \in 1..3 : measurement[Phases(call)[i]].type = "float"

\* C6: on a measurement whose three phase fields are populated, each total is
\* the sum of its phase a, b and c fields, and a call changes no field.
C6_TotalsAreSums ==
    /\ [](ret.call # "none" /\ Populated(ret.call) =>
            ret.value = Float(measurement[Phases(ret.call)[1]].value
                              + measurement[Phases(ret.call)[2]].value
                              + measurement[Phases(ret.call)[3]].value))
    /\ [][ret'.call # "none" => measurement' = measurement]_vars

\* the reactive total of 1.0, 2.0 and 3.0 was asked for, beside an active
\* power of phase c that is not 3.0
C6_Witness ==
    /\ ret.call = "calculate_total_reactive_power"
    /\ measurement["reactive_power_a"] = Float(1)
    /\ measurement["reactive_power_b"] = Float(2)
    /\ measurement["reactive_power_c"] = Float(3)
    /\ measurement["active_power_c"] = Float(1)
    /\ ret.value = Float(6)

\* C7: a total over phase fields of which one is None raises an error, never
\* a number, whichever phase is the unset one.
C7_UnsetPhaseFails ==
    ret.call # "none" /\ ~Populated(ret.call) => ret.value = TypeError

\* a total was asked for with only the phase c unset
C7_Witness ==
    /\ ret.call = "calculate_total_apparent_power"
    /\ measurement["apparent_power_a"] = Float(1)
    /\ measurement["apparent_power_b"] = Float(2)
    /\ measurement["apparent_power_c"] = NoneValue
    /\ ret.value = TypeError

-----------------------------------------------------------------------------
(* Migration 0005_auto_20161012_2000 and the runner that applies it *)

Migrations == {"0004", "0005"}

\* dependencies = [('transductor', '0004_energytransductor_working_correctly')];
\* 0004 rests on the migrations that made the table, which are applied
Dependencies(m) == IF m = "0005" THEN {"0004"} ELSE {}

\* a table: its flag columns and, for each row, the values of those columns
Table(cols, rws) == [columns |-> cols, rows |-> rws]

\* migrations.RemoveField(model_name='energytransductor', name=...)
RemoveField(tab, name) ==
    Table(tab.columns \ {name},
          [i \in 1..Len(tab.rows) |->
              [c \in tab.columns \ {name} |-> tab.rows[i][c]]])

\* migrations.AddField(model_name='energytransductor', name=...,
\* field=models.BooleanField(default=...)): the rows there get the default
AddField(tab, name, default) ==
    Table(tab.columns \cup {name},
          [i \in 1..Len(tab.rows) |->
              [c \in tab.columns \cup {name} |->
                  IF c = name THEN default ELSE tab.rows[i][c]]])

\* the operations of 0005 with BooleanField(default=True)
Operations0005_DefaultTrue(tab) ==
    AddField(RemoveField(tab, "working_correctly"), "broken", TRUE)

\* operations = [RemoveField(... 'working_correctly'),
\*               AddField(... 'broken', BooleanField(default=False))]
Operations0005(tab) ==
    AddField(RemoveField(tab, "working_correctly"), "broken", FALSE)

\* 0004_energytransductor_working_correctly, as its name tells: it adds the
\* field working_correctly; default is the default of that field
Operations0004(tab, default) == AddField(tab, "working_correctly", default)

\* the migrations to apply for `target`, each after those it depends on
RECURSIVE Order(_)
Order(m) ==
    IF Dependencies(m) = {} THEN <<m>>
    ELSE Order(CHOOSE d \in Dependencies(m) : TRUE) \o <<m>>

\* the plan of a run: the migrations of the order not yet recorded as applied
Plan(target) == SelectSeq(Order(target), LAMBDA m : m \notin applied)

\* the table after the migrations of `plan`, applied in turn
RECURSIVE Apply(_, _, _)
Apply(plan, tab, default) ==
    IF plan = <<>> THEN tab
    ELSE Apply(Tail(plan),
               IF Head(plan) = "0005" THEN Operations0005(tab)
               ELSE Operations0004(tab, default),
               default)

notMigVars == <<transductorModels, energyTransductors, energyMeasurements, last,
                ip, verdict, measurement, ret>>

MigInit ==
    /\ applied = {} /\ columns = {} /\ rows = <<>>
    /\ run = [op |-> "none", ran |-> <<>>]
    /\ IdleDb /\ IdleIp /\ IdlePower

\* a row of energytransductor is stored, with a value for each flag column
InsertRow(values) ==
    /\ Len(rows) < MaxFlagRows
    /\ rows' = Append(rows, values)
    /\ run' = [op |-> "insert", ran |-> <<>>]
    /\ UNCHANGED <<applied, columns, notMigVars>>

\* manage.py migrate transductor <target>: the plan is applied and each
\* migration of it is recorded as applied
Migrate(target, default) ==
    LET plan == Plan(target)
        tab == Apply(plan, Table(columns, rows), default)
    IN  /\ columns' = tab.columns
        /\ rows' = tab.rows
        /\ applied' = applied \cup {plan[i] : i \in 1..Len(plan)}
        /\ run' = [op |-> "migrate", ran |-> plan]
        /\ UNCHANGED notMigVars

MigNext ==
    \/ \E values \in [columns -> BOOLEAN] : InsertRow(values)
    \/ \E target \in Migrations, default \in BOOLEAN : Migrate(target, default)

SpecMig == MigInit /\ [][MigNext]_vars

\* the place of migration m in a run, 0 when the run did not apply it
Place(ran, m) ==
    IF \E i \in 1..Len(ran) : ran[i] = m
    THEN CHOOSE i \in 1..Len(ran) : ran[i] = m
    ELSE 0

====
